---- MODULE Spec2Model ----
(***************************************************************************)
(* Model of seir_streamlit_app.py: a Streamlit script that reads eight     *)
(* widgets, integrates the SEIR(D) equations with scipy's solve_ivp,       *)
(* unpacks and plots the sampled trajectory and writes two summary lines.  *)
(* Streamlit executes the script top to bottom when a session starts and   *)
(* again whenever a widget changes; a run in progress is abandoned when a  *)
(* new one starts.                                                         *)
(*                                                                         *)
(* Arithmetic.  Compartment values are fixed-point integers counting       *)
(* 1/Scale of a person, rounded to nearest after each product with a rate, *)
(* where the floating-point code rounds.  The rates are exact fractions of *)
(* the widget values: beta in hundredths, fatality_rate in thousandths,    *)
(* sigma = 1/incubation, gamma = 1/infectious.                             *)
(*                                                                         *)
(* Solver.  solve_ivp(method=RK45 by default) is an explicit embedded      *)
(* Runge-Kutta pair with adaptive step size: a step is accepted when the   *)
(* difference of the pair is within atol + rtol*|y|, the step grows after  *)
(* an accepted step and shrinks after a rejected one, and the t_eval       *)
(* points a step has passed are read off its dense output.  The model      *)
(* keeps that algorithm with the Heun-Euler pair in place of               *)
(* Dormand-Prince, steps that double and halve on a grid of TicksPerDay    *)
(* ticks per day, the maximum norm, and linear dense output.               *)
(***************************************************************************)
EXTENDS Integers, Sequences, FiniteSets, TLC

\* ------------------------------------------------------------- bounds
Scale == 10             \* fixed-point units per person
TicksPerDay == 4        \* time grid of the solver
Atol == 50              \* absolute error tolerance, in fixed-point units
MaxRuns == 3            \* script runs per session
MaxDays == 20           \* longest horizon of CoreInputs
MaxFault == 3           \* latest solver step at which FaultSpec fails the solver

\* ------------------------------------------------- widget declarations
BetaStepsPerUnit == 100
FatalitySteps == 1000
PopulationMin == 1000
ExposedMax == 1000
DaysMin == 30
RtolDen == 1000

\* values of the widgets that a session can hold
WidgetInputs ==
    [N : {PopulationMin}, beta : {10, 100}, incubation : {1},
     infectious : {1, 10}, fatality : {0, 100}, initial_infected : {10},
     initial_exposed : {5, ExposedMax}, days : {DaysMin}]

\* Parameters of the documented contract that no widget can hold
\* (beta = 0, days below the slider's minimum), given to the same code
CoreInputs ==
    [N : {PopulationMin}, beta : {0, 50}, incubation : {1, 14},
     infectious : {1, 21}, fatality : {0, 20}, initial_infected : {1, 100},
     initial_exposed : {1, 500}, days : {1, MaxDays}]

VARIABLES
    inputs,     \* values of the eight widgets for the current script run
    pc,         \* position of the script run
    t,          \* solver time, in ticks
    y,          \* solver state at time t
    h,          \* size of the next step to try, in ticks
    nsteps,     \* accepted solver steps of this run
    status,     \* solution.status: "pending", "success", "failed"
    sol_t,      \* solution.t
    sol_y,      \* solution.y, one 5-tuple per entry of solution.t
    time,       \* the script's time array
    series,     \* the script's S, E, I, R, D arrays, as 5-tuples
    plotted,    \* what st.pyplot has drawn
    peak,       \* "Peak Infected" as written: <<>> or <<value>>
    deaths,     \* "Total Deaths" as written: <<>> or <<value>>
    error,      \* exception that ended the run, or "none"
    runNo,      \* number of script runs started so far
    ref,        \* the first completed run of the session: inputs and outputs
    between,    \* a run with other inputs has started since ref was recorded
    fault       \* the solver step that fails to converge, or NoFault

vars == <<inputs, pc, t, y, h, nsteps, status, sol_t, sol_y, time, series,
          plotted, peak, deaths, error, runNo, ref, between, fault>>

NoFault == 0 - 1
NoRef == [set |-> FALSE, inputs |-> <<>>, outputs |-> <<>>]
NoPlot == [time |-> <<>>, series |-> <<>>]

\* ---------------------------------------------------------- arithmetic
ToFixed(n) == n * Scale

\* a / b rounded to nearest, b > 0
Round(a, b) == (2 * a + b) \div (2 * b)

Abs(v) == IF v >= 0 THEN v ELSE 0 - v

Max2(a, b) == IF a >= b THEN a ELSE b

\* int(x): truncation toward zero
IntOf(v) == IF v >= 0 THEN v \div Scale ELSE 0 - ((0 - v) \div Scale)

\* max(column i of s)
RECURSIVE MaxOf(_, _)
MaxOf(s, i) ==
    IF Len(s) = 1 THEN s[1][i]
    ELSE Max2(s[1][i], MaxOf(Tail(s), i))

\* ------------------------------------------------- initial conditions
InitialCondition(p) ==
    <<ToFixed(p.N - p.initial_infected - p.initial_exposed),
      ToFixed(p.initial_exposed),
      ToFixed(p.initial_infected),
      0,
      0>>

\* ---------------------------------------------------------- seir_model
\* seir_model with the whole outflow gamma * I credited to R
seir_model_unsplit(p, tt, yy) ==
    LET S == yy[1]
        E == yy[2]
        I == yy[3]
        infection == Round(Round(p.beta * S, BetaStepsPerUnit) * I, ToFixed(p.N))
        sigmaE == Round(E, p.incubation)
        gammaI == Round(I, p.infectious)
    IN  <<0 - infection, infection - sigmaE, sigmaE - gammaI, gammaI,
          Round(p.fatality * I, FatalitySteps * p.infectious)>>

\* seir_model with the sign of the infection term of dS/dt lost
seir_model_unsigned(p, tt, yy) ==
    LET S == yy[1]
        E == yy[2]
        I == yy[3]
        infection == Round(Round(p.beta * S, BetaStepsPerUnit) * I, ToFixed(p.N))
        sigmaE == Round(E, p.incubation)
        gammaI == Round(I, p.infectious)
    IN  <<infection, infection - sigmaE, sigmaE - gammaI,
          Round((FatalitySteps - p.fatality) * I, FatalitySteps * p.infectious),
          Round(p.fatality * I, FatalitySteps * p.infectious)>>

\* seir_model with the progression term sigma * E dropped from dE/dt
seir_model_no_progression(p, tt, yy) ==
    LET S == yy[1]
        E == yy[2]
        I == yy[3]
        infection == Round(Round(p.beta * S, BetaStepsPerUnit) * I, ToFixed(p.N))
        sigmaE == Round(E, p.incubation)
        gammaI == Round(I, p.infectious)
    IN  <<0 - infection, infection + sigmaE, sigmaE - gammaI,
          Round((FatalitySteps - p.fatality) * I, FatalitySteps * p.infectious),
          Round(p.fatality * I, FatalitySteps * p.infectious)>>

\* seir_model with the recovery and fatality branches exchanged
seir_model_swapped(p, tt, yy) ==
    LET S == yy[1]
        E == yy[2]
        I == yy[3]
        infection == Round(Round(p.beta * S, BetaStepsPerUnit) * I, ToFixed(p.N))
        sigmaE == Round(E, p.incubation)
        gammaI == Round(I, p.infectious)
    IN  <<0 - infection, infection - sigmaE, sigmaE - gammaI,
          Round(p.fatality * I, FatalitySteps * p.infectious),
          Round((FatalitySteps - p.fatality) * I, FatalitySteps * p.infectious)>>

seir_model(p, tt, yy) ==
    LET S == yy[1]
        E == yy[2]
        I == yy[3]
        infection == Round(Round(p.beta * S, BetaStepsPerUnit) * I, ToFixed(p.N))
        sigmaE == Round(E, p.incubation)
        gammaI == Round(I, p.infectious)
        dSdt == 0 - infection
        dEdt == infection - sigmaE
        dIdt == sigmaE - gammaI
        dRdt == Round((FatalitySteps - p.fatality) * I, FatalitySteps * p.infectious)
        dDdt == Round(p.fatality * I, FatalitySteps * p.infectious)
    IN  <<dSdt, dEdt, dIdt, dRdt, dDdt>>

\* -------------------------------------------------------------- solver
t_bound(p) == p.days * TicksPerDay

\* np.arange(0, days + 1, 1): the end of the interval sampled too
t_eval_closed(p) == [i \in 1..(p.days + 1) |-> i - 1]

\* np.arange(0, days, 1)
t_eval(p) == [i \in 1..p.days |-> i - 1]

\* one step of the embedded pair from yy with step hh: the new state and
\* whether the error estimate is within atol + rtol * max(|y|, |y_new|)
rk_step(p, tt, yy, hh) ==
    LET k1 == seir_model(p, tt, yy)
        yp == [i \in 1..5 |-> yy[i] + Round(hh * k1[i], TicksPerDay)]
        k2 == seir_model(p, tt + hh, yp)
        yn == [i \in 1..5 |-> yy[i] + Round(hh * (k1[i] + k2[i]), 2 * TicksPerDay)]
        err == [i \in 1..5 |-> Abs(Round(hh * (k2[i] - k1[i]), 2 * TicksPerDay))]
        tol == [i \in 1..5 |-> Atol + Round(Max2(Abs(yy[i]), Abs(yn[i])), RtolDen)]
    IN  [y |-> yn, ok |-> \A i \in 1..5 : err[i] <= tol[i]]

\* the step that is accepted: hh is halved until the error estimate passes;
\* one tick is the smallest step of the grid
RECURSIVE step_impl(_, _, _, _, _)
step_impl(p, tt, yy, hh, rejected) ==
    LET r == rk_step(p, tt, yy, hh)
    IN  IF r.ok \/ hh = 1
        THEN [h |-> hh, y |-> r.y, rejected |-> rejected]
        ELSE step_impl(p, tt, yy, (hh + 1) \div 2, TRUE)

\* the solution between two step ends, at output time te (in days)
dense_output(t_old, y_old, t_new, y_new, te) ==
    LET x == te * TicksPerDay - t_old
    IN  [i \in 1..5 |-> y_old[i] + Round((y_new[i] - y_old[i]) * x, t_new - t_old)]

\* the entries of t_eval from index done + 1 on that lie at or before t_new
t_eval_step(p, done, t_new) ==
    LET te == t_eval(p)
        upto == Cardinality({i \in 1..Len(te) : te[i] * TicksPerDay <= t_new})
    IN  SubSeq(te, done + 1, upto)

SolverStep ==
    /\ pc = "solve"
    /\ t < t_bound(inputs)
    /\ nsteps # fault
    /\ LET room == t_bound(inputs) - t
           s == step_impl(inputs, t, y, IF h > room THEN room ELSE h, FALSE)
           t_new == t + s.h
           out == t_eval_step(inputs, Len(sol_t), t_new)
       IN  /\ t' = t_new
           /\ y' = s.y
           /\ h' = IF s.rejected THEN s.h ELSE 2 * s.h
           /\ nsteps' = nsteps + 1
           /\ sol_t' = sol_t \o out
           /\ sol_y' = sol_y \o [k \in 1..Len(out) |->
                                   dense_output(t, y, t_new, s.y, out[k])]
           /\ IF t_new = t_bound(inputs)
              THEN status' = "success" /\ pc' = "unpack"
              ELSE UNCHANGED <<status, pc>>
    /\ UNCHANGED <<inputs, time, series, plotted, peak, deaths, error, runNo,
                   ref, between, fault>>

\* solve_ivp gives up (status -1) and returns the samples it has
SolverFail ==
    /\ pc = "solve"
    /\ t < t_bound(inputs)
    /\ nsteps = fault
    /\ status' = "failed"
    /\ pc' = "unpack"
    /\ UNCHANGED <<inputs, t, y, h, nsteps, sol_t, sol_y, time, series, plotted,
                   peak, deaths, error, runNo, ref, between, fault>>

\* -------------------------------------------------------------- script
\* S, E, I, R, D = solution.y ; time = solution.t
Unpack ==
    /\ pc = "unpack"
    /\ IF Len(sol_y) = 0
       THEN /\ error' = "ValueError"
            /\ pc' = "crashed"
            /\ UNCHANGED <<time, series>>
       ELSE /\ series' = sol_y
            /\ time' = sol_t
            /\ pc' = "plot"
            /\ UNCHANGED error
    /\ UNCHANGED <<inputs, t, y, h, nsteps, status, sol_t, sol_y, plotted, peak,
                   deaths, runNo, ref, between, fault>>

Plot ==
    /\ pc = "plot"
    /\ plotted' = [time |-> time, series |-> series]
    /\ pc' = "summary"
    /\ UNCHANGED <<inputs, t, y, h, nsteps, status, sol_t, sol_y, time, series,
                   peak, deaths, error, runNo, ref, between, fault>>

\* the maximum taken over I[1:]
PeakInfected_later(rows) ==
    IF Len(rows) = 1 THEN IntOf(rows[1][3]) ELSE IntOf(MaxOf(Tail(rows), 3))

\* D of the solver's final state instead of the last sample
TotalDeaths_at_end(rows) == IntOf(y[5])

\* int(max(I))
PeakInfected(rows) == IntOf(MaxOf(rows, 3))

\* int(D[-1])
TotalDeaths(rows) == IntOf(rows[Len(rows)][5])

Summary ==
    /\ pc = "summary"
    /\ peak' = <<PeakInfected(series)>>
    /\ deaths' = <<TotalDeaths(series)>>
    /\ pc' = "done"
    /\ UNCHANGED <<inputs, t, y, h, nsteps, status, sol_t, sol_y, time, series,
                   plotted, error, runNo, ref, between, fault>>

\* ------------------------------------------------------- script start
\* the state of a script run after the widgets are read and the initial
\* conditions computed
Fresh(p) ==
    [inputs |-> p, pc |-> "solve", t |-> 0, y |-> InitialCondition(p), h |-> 1,
     nsteps |-> 0, status |-> "pending", sol_t |-> <<>>, sol_y |-> <<>>,
     time |-> <<>>, series |-> <<>>, plotted |-> NoPlot, peak |-> <<>>,
     deaths |-> <<>>, error |-> "none"]

\* a new run that starts the solver from the state the last run left
Reexecute_warm(p) == [Fresh(p) EXCEPT !.y = y]

\* the script executed again from its first line: every global is rebuilt
\* from the widget values
Reexecute(p) == Fresh(p)

Outputs == [sol_t |-> sol_t, sol_y |-> sol_y, time |-> time, series |-> series,
            plotted |-> plotted, peak |-> peak, deaths |-> deaths,
            status |-> status]

\* a widget changes (or the page is reloaded): the script runs again.  A run
\* in progress gives way at its next call of a Streamlit command (st.pyplot,
\* st.write), not inside solve_ivp.
Rerun ==
    /\ runNo < MaxRuns
    /\ pc \in {"plot", "summary", "done", "crashed"}
    /\ \E p \in WidgetInputs :
        LET f == Reexecute(p)
        IN  /\ inputs' = f.inputs
            /\ pc' = f.pc
            /\ t' = f.t
            /\ y' = f.y
            /\ h' = f.h
            /\ nsteps' = f.nsteps
            /\ status' = f.status
            /\ sol_t' = f.sol_t
            /\ sol_y' = f.sol_y
            /\ time' = f.time
            /\ series' = f.series
            /\ plotted' = f.plotted
            /\ peak' = f.peak
            /\ deaths' = f.deaths
            /\ error' = f.error
    /\ runNo' = runNo + 1
    /\ IF ~ref.set /\ pc = "done"
       THEN /\ ref' = [set |-> TRUE, inputs |-> inputs, outputs |-> Outputs]
            /\ between' = FALSE
       ELSE /\ ref' = ref
            /\ between' = (between \/ (ref.set /\ inputs # ref.inputs))
    /\ UNCHANGED fault

Start(p) ==
    LET f == Fresh(p)
    IN  /\ inputs = f.inputs
        /\ pc = f.pc
        /\ t = f.t
        /\ y = f.y
        /\ h = f.h
        /\ nsteps = f.nsteps
        /\ status = f.status
        /\ sol_t = f.sol_t
        /\ sol_y = f.sol_y
        /\ time = f.time
        /\ series = f.series
        /\ plotted = f.plotted
        /\ peak = f.peak
        /\ deaths = f.deaths
        /\ error = f.error
        /\ runNo = 1
        /\ ref = NoRef
        /\ between = FALSE

\* a session of the app
Init == (\E p \in WidgetInputs : Start(p)) /\ fault = NoFault

Next == SolverStep \/ Unpack \/ Plot \/ Summary \/ Rerun

Spec == Init /\ [][Next]_vars

\* one call of the computation on Parameters of the contract
CoreInit == (\E p \in CoreInputs : Start(p)) /\ fault = NoFault

CoreNext == SolverStep \/ Unpack \/ Plot \/ Summary

CoreSpec == CoreInit /\ [][CoreNext]_vars

\* one script run in which solve_ivp fails to converge at step fault + 1
FaultInit == (\E p \in WidgetInputs : Start(p)) /\ fault \in 0..MaxFault

FaultNext == SolverStep \/ SolverFail \/ Unpack \/ Plot \/ Summary

FaultSpec == FaultInit /\ [][FaultNext]_vars

\* =============================================================== claims
\* the conditions documented for InvalidParameterError
Valid(p) ==
    /\ p.N > 0
    /\ p.initial_infected + p.initial_exposed <= p.N
    /\ p.beta >= 0 /\ p.incubation > 0 /\ p.infectious > 0 /\ p.fatality >= 0
    /\ p.days > 0

Total(v) == v[1] + v[2] + v[3] + v[4] + v[5]

\* every state vector the run holds: the solver's and the samples
Vectors == {y} \cup {sol_y[k] : k \in 1..Len(sol_y)}
               \cup {series[k] : k \in 1..Len(series)}

\* rounding accumulated so far: one unit per day of the derivative's own
\* rounding, and five half-units per step and per sample
ConservationSlack == (t \div TicksPerDay) + 1 + 3 * (nsteps + 1)

\* the deviation the solver's error control leaves
SolverTolerance == 10 * Atol

\* C1: the five derivative components sum to zero (to one rounding unit), so
\* S+E+I+R+D stays at N, to accumulated rounding, in the solver's state and
\* in every sample of the trajectory
C1_Conservation ==
    /\ Abs(Total(seir_model(inputs, t, y))) <= 1
    /\ \A v \in Vectors : Abs(Total(v) - ToFixed(inputs.N)) <= ConservationSlack

C1_Witness ==
    /\ pc = "done"
    /\ Len(series) = inputs.days
    /\ series[Len(series)][1] # series[1][1]
    /\ series[Len(series)][4] > 0
    /\ series[Len(series)][5] > 0

\* C2: with invalid Parameters (here: initial_infected + initial_exposed > N)
\* the run is rejected at entry: the solver takes no step and nothing is
\* unpacked, plotted or summarised
C2_ParameterRejection ==
    ~Valid(inputs) =>
        /\ nsteps = 0
        /\ sol_t = <<>>
        /\ time = <<>>
        /\ plotted = NoPlot
        /\ peak = <<>>
        /\ deaths = <<>>

\* C3: when the solver fails part-way the run reports IntegrationError and
\* the truncated trajectory is never unpacked, plotted or summarised
C3_AllOrNothing ==
    status = "failed" =>
        /\ time = <<>>
        /\ series = <<>>
        /\ plotted = NoPlot
        /\ peak = <<>>
        /\ deaths = <<>>
        /\ pc # "unpack" => error = "IntegrationError"

\* C4: a successful run yields exactly `days` samples at times 0..days-1,
\* index-aligned, the first equal to the initial condition, none at t = days
\* although the integration has run to t = days; the script's arrays are
\* those samples
C4_Sampling ==
    /\ Len(sol_t) = Len(sol_y)
    /\ \A i \in 1..Len(sol_t) : sol_t[i] = i - 1
    /\ Len(sol_y) >= 1 => sol_y[1] = InitialCondition(inputs)
    /\ status = "success" =>
        /\ t = t_bound(inputs)
        /\ Len(sol_t) = inputs.days
    /\ pc \in {"plot", "summary", "done"} => time = sol_t /\ series = sol_y

C4_Witness ==
    /\ pc = "done"
    /\ inputs.days = 1
    /\ Len(series) = 1
    /\ series[1] = InitialCondition(inputs)
    /\ y # series[1]

\* C5: Total Deaths is D of the sample at t = days - 1, truncated to an
\* integer
C5_TotalDeaths ==
    pc = "done" =>
        /\ Len(sol_t) = inputs.days
        /\ sol_t[inputs.days] = inputs.days - 1
        /\ deaths = <<IntOf(sol_y[inputs.days][5])>>

\* the last sample and the end of the integration give different totals
C5_Witness ==
    /\ pc = "done"
    /\ deaths[1] > 0
    /\ IntOf(y[5]) # deaths[1]

C10_FatalityPartition ==
    \A v \in Vectors :
        /\ 2 * TicksPerDay * Abs((FatalitySteps - inputs.fatality) * v[5]
                                    - inputs.fatality * v[4])
              <= FatalitySteps * (t + TicksPerDay * (nsteps + 1))
        /\ inputs.fatality = 0 => v[5] = 0

C10_Witness ==
    /\ pc = "done"
    /\ inputs.fatality > 0
    /\ series[Len(series)][5] > ToFixed(1)
    /\ series[Len(series)][4] > ToFixed(1)

====
